---- MODULE Spec2Model ----
(***************************************************************************)
(* A model of custom_components/edge_tts/stream_processor.py:              *)
(*   - the streaming pipeline: async_process_stream (the consumer-facing   *)
(*     async generator) and _process_all_text (the producer task), joined  *)
(*     by an asyncio.Queue(maxsize=10);                                    *)
(*   - the one-shot pipeline async_process_to_single_file;                 *)
(*   - the sentence segmenter: _preprocess_stream, _find_sentence and      *)
(*     _sentence_generator, on texts that are sequences of characters.     *)
(* The pipelines see the segmenter as a source of numbered sentences.      *)
(***************************************************************************)
EXTENDS Integers, Sequences, FiniteSets, TLC

\* ------------------------------------------------------------------------
\* Bounds of the model
\* ------------------------------------------------------------------------
\* Sentences the input stream may deliver in one invocation.
MaxSentences == 11
\* Audio chunks the synthesis service may return for one sentence.
MaxAudioChunks == 1
\* Non-nominal events of one run (failed synthesis, untrimmed clip, input error).
MaxAnomalies == 1
\* Chunks the input stream may cut a text into.
MaxChunks == 2
\* The chunk boundaries fall within this many characters of the text's end
\* (anywhere in a text that is not longer).
MaxCutWindow == 40
\* The clips handed to the trimmer alone last TRIM_MS_FROM_END give or take
\* at most this many milliseconds.
MaxClipSpread == 15

\* ------------------------------------------------------------------------
\* Program constants
\* ------------------------------------------------------------------------
\* asyncio.Queue(maxsize=10)
QueueMaxSize == 10

\* TRIM_MS_FROM_END = 750
TRIM_MS_FROM_END == 750

VARIABLES
    mode,        \* "stream": async_process_stream, "file":
                 \* async_process_to_single_file, "off": neither runs
    \* ---- streaming pipeline ----
    queue,       \* output_queue: FIFO of frames and the None sentinel
    ppc,         \* position of the producer task _process_all_text
    cpc,         \* position of the generator async_process_stream: "get",
                 \* "yield", "unwind" (after a cancellation), "done" (ended by
                 \* the sentinel), "aborted" (ended by a cancellation),
                 \* "closed" (closed at the yield)
    cancelReq,   \* processing_task.cancel() was called and not yet delivered
    nsent,       \* sentences yielded so far by the sentence generator
    chunksRecv,  \* audio chunks accumulated in mp3_sentence_bytes while the
                 \* synthesis streams (0 once the bytes are handed on)
    pending,     \* trimmed_mp3 waiting for output_queue.put
    thread,      \* the asyncio.to_thread worker running _trim_end_of_audio
    taskExc,     \* the producer task ends with the input stream's exception
    \* ---- single-file pipeline ----
    all_segments,\* all_segments: the clips kept for the join, in order
    result,      \* the value returned: not yet, None, or a file of some
                 \* duration
    \* ---- EdgeTtsEntity.async_get_tts_audio ----
    audio,       \* the value it returns once the stream it reads has ended
    \* ---- history (ghost) ----
    delivered,   \* frames yielded to the consumer, in order
    status,      \* per sentence, how its synthesis ended: "none" (not yet),
                 \* "ok" (audio, normal end), "empty" (normal end, no audio),
                 \* "raised_empty" (raised before any audio),
                 \* "raised_partial" (raised after some audio)
    synthCalls,  \* per sentence: number of dispatches to the synthesis service
    anomalies,   \* non-nominal events so far
    sentinels,   \* how many times None was enqueued
    lateFrame,   \* a frame was enqueued after the sentinel
    clipOf,      \* per sentence, the clip synthesized for it, once seen by
                 \* the trimmer
    \* ---- sentence segmenter ----
    text,        \* the whole text the input stream carries (ghost)
    chunks,      \* the chunks of it still to arrive
    nchunks,     \* the number of chunks it was cut into (ghost)
    buffer,      \* buffer of _sentence_generator
    emitted,     \* the sentences yielded so far, in order
    decimalCut,  \* a sentence was cut at a period between two digits (ghost)
    forced,      \* the splits made for length alone: buffer, sentence, rest
                 \* (ghost)
    spc,         \* position of _sentence_generator
    \* ---- the trimmer alone ----
    clip,        \* the clip handed to the trimmer
    trimOut,     \* what the trimmer gave back
    tpc,         \* "ready", then "trimmed" or "kept" ("off" in the other
                 \* specifications)
    \* ---- two invocations of async_process_stream on one processor ----
    inputs,      \* per invocation, the chunks of its text stream (ghost)
    invoc,       \* per invocation, the locals of its tasks: the chunks still
                 \* to arrive, the turns the sentence loop has still to make
                 \* on its buffer, the sentence in synthesis, the positions
                 \* of the producer and of the consumer, the frames received
    buffers,     \* the buffers of the _sentence_generator objects
    queues       \* the output_queue objects

fvars == <<all_segments, result>>

pvars == <<queue, ppc, cpc, cancelReq, nsent, chunksRecv, pending, thread,
           taskExc, fvars, delivered, status, synthCalls, anomalies,
           sentinels, lateFrame, clipOf, audio>>

svars == <<text, chunks, nchunks, buffer, emitted, decimalCut, forced, spc>>

tvars == <<clip, trimOut, tpc>>

dvars == <<inputs, invoc, buffers, queues>>

vars == <<mode, pvars, svars, tvars, dvars>>

\* ------------------------------------------------------------------------
\* Characters and texts (a text is a sequence of one-character strings)
\* ------------------------------------------------------------------------
\* \d
Digits == {"0", "1", "2", "3", "4", "5", "6", "7", "8", "9"}

Letters ==
    {"a", "b", "c", "d", "e", "f", "g", "h", "i", "j", "k", "l", "m", "n",
     "o", "p", "q", "r", "s", "t", "u", "v", "w", "x", "y", "z",
     "A", "B", "C", "D", "E", "F", "G", "H", "I", "J", "K", "L", "M", "N",
     "O", "P", "Q", "R", "S", "T", "U", "V", "W", "X", "Y", "Z"}

\* \w
WordChars == Letters \cup Digits \cup {"_"}

\* what str.strip() removes
Whitespace == {" ", "\n", "\t"}

\* [.!?]
Terminators == {".", "!", "?"}

IsDigit(c) == c \in Digits

\* re.search(r'\w', s)
HasWord(s) == \E i \in 1..Len(s) : s[i] \in WordChars

\* s[i:] of Python, for a 1-based i
Drop(s, i) == SubSeq(s, i, Len(s))

\* s[:n] of Python: the whole of s when it is shorter than n
Take(s, n) == SubSeq(s, 1, IF n < Len(s) THEN n ELSE Len(s))

\* The text "The value is 3.14 and 2.71, done."
TextDecimals ==
    <<"T", "h", "e", " ", "v", "a", "l", "u", "e", " ", "i", "s", " ", "3",
    ".", "1", "4", " ", "a", "n", "d", " ", "2", ".", "7", "1", ",", " ",
    "d", "o", "n", "e", ".">>

\* The text "The value is 3.14 and more."
TextSplitDecimal ==
    <<"T", "h", "e", " ", "v", "a", "l", "u", "e", " ", "i", "s", " ", "3",
    ".", "1", "4", " ", "a", "n", "d", " ", "m", "o", "r", "e", ".">>

\* The text "Use 1.2.3 now. *ok*": digits joined by periods, and markers.
TextDotted ==
    <<"U", "s", "e", " ", "1", ".", "2", ".", "3", " ", "n", "o", "w", ".",
    " ", "*", "o", "k", "*">>

\* The text "Hi... ok?! --": candidates made of punctuation alone.
TextEllipsis ==
    <<"H", "i", ".", ".", ".", " ", "o", "k", "?", "!", " ", "-", "-">>

\* c repeated n times
Rep(c, n) == [i \in 1..n |-> c]

\* 150 a's, a space, 60 b's, a space, 20 c's: no terminator, and the last
\* space of the first 220 characters is the one at offset 211.
TextLongWords ==
    Rep("a", 150) \o <<" ">> \o Rep("b", 60) \o <<" ">> \o Rep("c", 20)

\* 205 dashes, a space, "end": the candidate cut for length has no word.
TextLongDashes == Rep("-", 205) \o <<" ", "e", "n", "d">>

\* 196 a's, "3.14", "bc": no space, and a decimal around offset 200.
TextLongDecimal == Rep("a", 196) \o <<"3", ".", "1", "4", "b", "c">>

\* Two spaces and 219 x's: no terminator and no other space.
TextLeadingSpaces == <<" ", " ">> \o Rep("x", 219)

\* The texts the input stream may carry.
Texts ==
    {TextDecimals, TextSplitDecimal, TextDotted, TextEllipsis, TextLongWords,
     TextLongDashes, TextLongDecimal, TextLeadingSpaces}

\* ------------------------------------------------------------------------
\* _preprocess_stream
\* ------------------------------------------------------------------------
\* chunk.replace('*', '')
Preprocess(chunk) == SelectSeq(chunk, LAMBDA c : c # "*")

\* ------------------------------------------------------------------------
\* _find_sentence
\* ------------------------------------------------------------------------
DECIMAL_PLACEHOLDER == <<"#", "#", "D", "E", "C", "#", "#">>

\* (\d)\.(\d) matches b at position p
DecimalAt(b, p) ==
    /\ p + 2 <= Len(b)
    /\ IsDigit(b[p]) /\ b[p + 1] = "." /\ IsDigit(b[p + 2])

\* re.sub(r'(\d)\.(\d)', r'\1##DEC##\2', b) from position i on: the matches
\* are found left to right and do not overlap (the search resumes after the
\* digit that closes a match), so that digit cannot open the next match.
RECURSIVE SafeFrom(_, _)
SafeFrom(b, i) ==
    IF \E p \in i..Len(b) : DecimalAt(b, p)
    THEN LET p == CHOOSE q \in i..Len(b) :
                     /\ DecimalAt(b, q)
                     /\ \A r \in i..(q - 1) : ~DecimalAt(b, r)
         IN  SubSeq(b, i, p) \o DECIMAL_PLACEHOLDER \o <<b[p + 2]>>
                \o SafeFrom(b, p + 3)
    ELSE Drop(b, i)

SafeText(b) == SafeFrom(b, 1)

\* s starts with the placeholder at position i
PlaceholderAt(s, i) ==
    /\ i + Len(DECIMAL_PLACEHOLDER) - 1 <= Len(s)
    /\ SubSeq(s, i, i + Len(DECIMAL_PLACEHOLDER) - 1) = DECIMAL_PLACEHOLDER

\* s.replace(DECIMAL_PLACEHOLDER, '.') from position i on
RECURSIVE RestoreFrom(_, _)
RestoreFrom(s, i) ==
    IF \E p \in i..Len(s) : PlaceholderAt(s, p)
    THEN LET p == CHOOSE q \in i..Len(s) :
                     /\ PlaceholderAt(s, q)
                     /\ \A r \in i..(q - 1) : ~PlaceholderAt(s, r)
         IN  SubSeq(s, i, p - 1) \o <<".">>
                \o RestoreFrom(s, p + Len(DECIMAL_PLACEHOLDER))
    ELSE Drop(s, i)

Restore(s) == RestoreFrom(s, 1)

\* str.strip()
LStrip(s) ==
    IF \A i \in 1..Len(s) : s[i] \in Whitespace THEN <<>>
    ELSE Drop(s, CHOOSE i \in 1..Len(s) :
                    /\ s[i] \notin Whitespace
                    /\ \A j \in 1..(i - 1) : s[j] \in Whitespace)

RStrip(s) ==
    IF \A i \in 1..Len(s) : s[i] \in Whitespace THEN <<>>
    ELSE Take(s, CHOOSE i \in 1..Len(s) :
                    /\ s[i] \notin Whitespace
                    /\ \A j \in (i + 1)..Len(s) : s[j] \in Whitespace)

Strip(s) == RStrip(LStrip(s))

\* re.search(r"[.!?]", s): match.start() + 1, or 0 without a match
FirstTerminator(s) ==
    IF \E i \in 1..Len(s) : s[i] \in Terminators
    THEN CHOOSE i \in 1..Len(s) :
            /\ s[i] \in Terminators
            /\ \A j \in 1..(i - 1) : s[j] \notin Terminators
    ELSE 0

\* search_area.rfind(" ") as a 1-based position, or 0 when there is none
\* (Python's index is this position minus 1).
LastSpace(s) ==
    IF \E i \in 1..Len(s) : s[i] = " "
    THEN CHOOSE i \in 1..Len(s) :
            /\ s[i] = " "
            /\ \A j \in (i + 1)..Len(s) : s[j] # " "
    ELSE 0

\* max_chars = 200
max_chars == 200

\* search_area = safe_text[:max_chars + 20]
search_slack == 20

\* safe_text[:n], safe_text[n:] with the placeholders put back and both
\* parts stripped.
SplitAt(safe, n) ==
    <<Strip(Restore(Take(safe, n))), Strip(Restore(Drop(safe, n + 1)))>>

\* _find_sentence(buffer_text): <<sentence, rest>>
FindSentence(b) ==
    IF b = <<>> THEN <<<<>>, <<>>>>
    ELSE LET safe == SafeText(b)
             end_index == FirstTerminator(safe)
         IN  IF end_index > 0 THEN SplitAt(safe, end_index)
             ELSE IF Len(safe) > max_chars
                  THEN LET search_area == Take(safe, max_chars + search_slack)
                           last_space_index == LastSpace(search_area) - 1
                       IN  IF last_space_index > 0
                           THEN SplitAt(safe, last_space_index)
                           ELSE SplitAt(safe, max_chars)
                  ELSE <<<<>>, b>>

\* _find_sentence(b) takes the max_chars branch: no terminator in safe_text,
\* which is longer than max_chars.
ForcedSplit(b) ==
    /\ b # <<>>
    /\ FirstTerminator(SafeText(b)) = 0
    /\ Len(SafeText(b)) > max_chars

\* The terminator _find_sentence cuts at stands between two digits.
CutsAtDecimal(b) ==
    LET safe == SafeText(b)
        k == FirstTerminator(safe)
    IN  /\ k > 1 /\ k < Len(safe)
        /\ safe[k] = "."
        /\ IsDigit(safe[k - 1]) /\ IsDigit(safe[k + 1])

\* ------------------------------------------------------------------------
\* _sentence_generator
\* ------------------------------------------------------------------------
\* What a split made for length alone is recorded as.
SplitRecord(buf, r) == [buffer |-> buf, sentence |-> r[1], rest |-> r[2]]

\* Mutant of Drain: a sentence is yielded without the \w test.
RECURSIVE DrainUnfiltered(_, _, _, _)
DrainUnfiltered(buf, out, cut, splits) ==
    LET r == FindSentence(buf)
    IN  IF r[1] # <<>>
        THEN DrainUnfiltered(r[2],
                   Append(out, r[1]),
                   cut \/ CutsAtDecimal(buf),
                   IF ForcedSplit(buf)
                   THEN Append(splits, SplitRecord(buf, r)) ELSE splits)
        ELSE [buffer |-> buf, out |-> out, cut |-> cut, splits |-> splits]

\* The `while True` loop on one buffer: [buffer, out, cut, splits], the
\* buffer left, the sentences yielded, whether a cut fell between two
\* digits, and the splits made for length alone.
RECURSIVE Drain(_, _, _, _)
Drain(buf, out, cut, splits) ==
    LET r == FindSentence(buf)
    IN  IF r[1] # <<>>
        THEN Drain(r[2],
                   IF HasWord(r[1]) THEN Append(out, r[1]) ELSE out,
                   cut \/ CutsAtDecimal(buf),
                   IF ForcedSplit(buf)
                   THEN Append(splits, SplitRecord(buf, r)) ELSE splits)
        ELSE [buffer |-> buf, out |-> out, cut |-> cut, splits |-> splits]

\* Mutant of FlushOf: the rest of the buffer is yielded without strip().
FlushOfUntrimmed(buf) ==
    IF buf # <<>> /\ HasWord(buf) THEN <<buf>> ELSE <<>>

\* What is yielded after the stream's end for the buffer left.
FlushOf(buf) ==
    IF Strip(buf) # <<>> /\ HasWord(Strip(buf)) THEN <<Strip(buf)>> ELSE <<>>

\* The sentences of a text that arrives as one chunk.
Unsplit(t) ==
    LET d == Drain(Preprocess(t), <<>>, FALSE, <<>>)
    IN  d.out \o FlushOf(d.buffer)

\* The positions of t a chunk may end at, short of the last.
CutPoints(t) == {i \in 1..(Len(t) - 1) : i > Len(t) - MaxCutWindow}

\* All the ways to cut t from position start on into at most k non-empty
\* chunks.
RECURSIVE ChunksAfter(_, _, _)
ChunksAfter(t, start, k) ==
    IF k <= 1 THEN {<<Drop(t, start)>>}
    ELSE {<<Drop(t, start)>>} \cup
         UNION {{<<SubSeq(t, start, i)>> \o c : c \in ChunksAfter(t, i + 1, k - 1)} :
                    i \in {j \in CutPoints(t) : j >= start}}

\* All the ways to cut t into at most k non-empty chunks.
Chunkings(t, k) == ChunksAfter(t, 1, k)

SegInit ==
    /\ text \in Texts
    /\ chunks \in Chunkings(text, MaxChunks)
    /\ nchunks = Len(chunks)
    /\ buffer = <<>>
    /\ emitted = <<>>
    /\ decimalCut = FALSE
    /\ forced = <<>>
    /\ spc = "recv"

\* `async for chunk in text_stream`: buffer += chunk, then the while loop,
\* yielding every sentence found.
RecvChunk ==
    /\ spc = "recv"
    /\ chunks # <<>>
    /\ LET d == Drain(buffer \o Preprocess(Head(chunks)), <<>>, FALSE, <<>>)
       IN  /\ buffer' = d.buffer
           /\ emitted' = emitted \o d.out
           /\ decimalCut' = (decimalCut \/ d.cut)
           /\ forced' = forced \o d.splits
    /\ chunks' = Tail(chunks)
    /\ UNCHANGED <<text, nchunks, spc, pvars, tvars, dvars, mode>>

\* The stream has ended: the rest of the buffer is yielded if speakable.
Flush ==
    /\ spc = "recv"
    /\ chunks = <<>>
    /\ emitted' = emitted \o FlushOf(buffer)
    /\ spc' = "done"
    /\ UNCHANGED <<text, chunks, nchunks, buffer, decimalCut, forced, pvars,
                   tvars, dvars, mode>>

SegNext == RecvChunk \/ Flush

\* ------------------------------------------------------------------------
\* Frames
\* ------------------------------------------------------------------------
\* A synthesized clip: dur is the length in milliseconds pydub reports for
\* it, decodable whether pydub decodes and re-encodes it without raising.
Clip(d, ok) == [dur |-> d, decodable |-> ok]

\* No clip yet.
NoClip == Clip(0, FALSE)

\* Audio handed on: the "original" bytes as synthesized, or the clip
\* "trimmed" and re-encoded; dur is its length in milliseconds.
Audio(k, d) == [kind |-> k, dur |-> d]

NoAudio == Audio("none", 0)

\* Mutant of TrimEndOfAudio: the length test is strict.
TrimEndOfAudioStrict(c) ==
    IF ~c.decodable THEN Audio("original", c.dur)
    ELSE IF c.dur < TRIM_MS_FROM_END THEN Audio("original", c.dur)
    ELSE Audio("trimmed", c.dur - TRIM_MS_FROM_END)

\* _trim_end_of_audio(audio_data): audio_data itself when pydub raises or
\* the clip is at most TRIM_MS_FROM_END long, else segment[:-TRIM_MS_FROM_END]
\* exported as MP3.
TrimEndOfAudio(c) ==
    IF ~c.decodable THEN Audio("original", c.dur)
    ELSE IF c.dur <= TRIM_MS_FROM_END THEN Audio("original", c.dur)
    ELSE Audio("trimmed", c.dur - TRIM_MS_FROM_END)

\* What async_process_to_single_file keeps of a decoded clip:
\* segment[:-TRIM_MS_FROM_END] when it is longer than TRIM_MS_FROM_END, the
\* segment as it is otherwise.
TrimmedSegment(c) ==
    IF c.dur > TRIM_MS_FROM_END
    THEN Audio("trimmed", c.dur - TRIM_MS_FROM_END)
    ELSE Audio("original", c.dur)

\* The clip of a sentence synthesized without incident.
NominalClip == Clip(2 * TRIM_MS_FROM_END, TRUE)

\* The clips the synthesis may give in a run of the streaming pipeline: the
\* nominal one and one pydub cannot decode.
StreamClips == {NominalClip, Clip(2 * TRIM_MS_FROM_END, FALSE)}

\* In a run of the single-file pipeline: those, and a clip of exactly
\* TRIM_MS_FROM_END.
FileClips == StreamClips \cup {Clip(TRIM_MS_FROM_END, TRUE)}

\* The sentinel put by the finally clause.
NoneItem == [seq |-> 0, kind |-> "None", dur |-> 0]

\* A frame: the audio a of sentence i.
Frame(i, a) == [seq |-> i, kind |-> a.kind, dur |-> a.dur]

\* sum(all_segments, AudioSegment.empty()): the lengths add up.
RECURSIVE TotalDur(_)
TotalDur(segs) ==
    IF segs = <<>> THEN 0 ELSE Head(segs).dur + TotalDur(Tail(segs))

\* The value async_process_to_single_file returns.
ResultPending == [kind |-> "pending", dur |-> 0]

ResultNone == [kind |-> "None", dur |-> 0]

ResultFile(d) == [kind |-> "file", dur |-> d]

\* What async_get_tts_audio returns: the extension and None, or the
\* extension and the bytes of the chunks joined in their order.
TtsPending == [ext |-> "", kind |-> "pending", chunks |-> <<>>]

TtsNone == [ext |-> "mp3", kind |-> "None", chunks |-> <<>>]

TtsBytes(mp3_chunks) == [ext |-> "mp3", kind |-> "bytes", chunks |-> mp3_chunks]

\* Mutant of TtsAudio: the chunks are joined without the test for none.
TtsAudioUnchecked(mp3_chunks) == TtsBytes(mp3_chunks)

\* `if not mp3_chunks: return "mp3", None`, else
\* `return "mp3", b"".join(mp3_chunks)`
TtsAudio(mp3_chunks) ==
    IF mp3_chunks = <<>> THEN TtsNone ELSE TtsBytes(mp3_chunks)

Budget == anomalies < MaxAnomalies

\* ------------------------------------------------------------------------
\* Init: the state right after asyncio.create_task in async_process_stream
\* (or at the entry of async_process_to_single_file)
\* ------------------------------------------------------------------------
\* Mutant of PipeInit: a container header is queued before any audio.
PipeInitWithHeader ==
    /\ mode \in {"stream", "file"}
    /\ queue = <<[seq |-> 0, kind |-> "header", dur |-> 0]>>
    /\ ppc = "next"
    /\ cpc = IF mode = "stream" THEN "get" ELSE "off"
    /\ all_segments = <<>>
    /\ result = ResultPending
    /\ cancelReq = FALSE
    /\ nsent = 0
    /\ chunksRecv = 0
    /\ pending = NoAudio
    /\ thread = "idle"
    /\ taskExc = FALSE
    /\ delivered = <<>>
    /\ status = [i \in 1..MaxSentences |-> "none"]
    /\ synthCalls = [i \in 1..MaxSentences |-> 0]
    /\ anomalies = 0
    /\ sentinels = 0
    /\ lateFrame = FALSE
    /\ clipOf = [i \in 1..MaxSentences |-> NoClip]
    /\ audio = TtsPending

PipeInit ==
    /\ mode \in {"stream", "file"}
    /\ queue = <<>>
    /\ ppc = "next"
    /\ cpc = IF mode = "stream" THEN "get" ELSE "off"
    /\ all_segments = <<>>
    /\ result = ResultPending
    /\ cancelReq = FALSE
    /\ nsent = 0
    /\ chunksRecv = 0
    /\ pending = NoAudio
    /\ thread = "idle"
    /\ taskExc = FALSE
    /\ delivered = <<>>
    /\ status = [i \in 1..MaxSentences |-> "none"]
    /\ synthCalls = [i \in 1..MaxSentences |-> 0]
    /\ anomalies = 0
    /\ sentinels = 0
    /\ lateFrame = FALSE
    /\ clipOf = [i \in 1..MaxSentences |-> NoClip]
    /\ audio = TtsPending

\* ------------------------------------------------------------------------
\* Producer: _process_all_text
\* ------------------------------------------------------------------------
\* Mutant of QueueFull: the bound is compared off by one.
QueueFullOffByOne == Len(queue) > QueueMaxSize

\* output_queue.full()
QueueFull == Len(queue) >= QueueMaxSize

\* Mutant of QueuePut: the item goes to the head of the queue (a LIFO).
QueuePutFront(item) ==
    /\ queue' = <<item>> \o queue
    /\ sentinels' = IF item = NoneItem THEN sentinels + 1 ELSE sentinels
    /\ lateFrame' = (lateFrame \/ (item # NoneItem /\ sentinels > 0))

\* put_nowait(item), the end of output_queue.put(item).
QueuePut(item) ==
    /\ queue' = Append(queue, item)
    /\ sentinels' = IF item = NoneItem THEN sentinels + 1 ELSE sentinels
    /\ lateFrame' = (lateFrame \/ (item # NoneItem /\ sentinels > 0))

\* Mutant of EnterFinally: the task ends without the sentinel.
EnterFinallyNoSentinel ==
    ppc' = "finished" /\ UNCHANGED <<queue, sentinels, lateFrame>>

\* finally: await output_queue.put(None). With room in the queue the put
\* does not suspend and the task ends in the same step; else it waits.
EnterFinally ==
    IF QueueFull
    THEN ppc' = "finally" /\ UNCHANGED <<queue, sentinels, lateFrame>>
    ELSE ppc' = "finished" /\ QueuePut(NoneItem)

\* `async for sentence in sentences_generator` yields the next sentence.
InputSentence ==
    /\ ppc = "next" /\ ~cancelReq
    /\ nsent < MaxSentences
    /\ nsent' = nsent + 1
    /\ ppc' = "delay"
    /\ UNCHANGED <<queue, cpc, cancelReq, chunksRecv, pending, thread,
                   taskExc, delivered, status, synthCalls, anomalies,
                   sentinels, lateFrame, svars, tvars, dvars, fvars, mode,
                   clipOf, audio>>

\* The input stream ends: the loop is left and the finally clause runs.
InputEnd ==
    /\ mode = "stream"
    /\ ppc = "next" /\ ~cancelReq
    /\ EnterFinally
    /\ UNCHANGED <<cpc, cancelReq, nsent, chunksRecv, pending, thread,
                   taskExc, delivered, status, synthCalls, anomalies, svars,
                   tvars, dvars, fvars, mode, clipOf, audio>>

\* Mutant of InputRaise: the exception ends the task past the finally clause.
InputRaiseNoFinally ==
    /\ mode = "stream"
    /\ ppc = "next" /\ ~cancelReq
    /\ Budget
    /\ EnterFinallyNoSentinel
    /\ taskExc' = TRUE
    /\ anomalies' = anomalies + 1
    /\ UNCHANGED <<cpc, cancelReq, nsent, chunksRecv, pending, thread,
                   delivered, status, synthCalls, svars, tvars, dvars, fvars,
                   mode, clipOf, audio>>

\* The input stream raises: the exception leaves the outer try through finally.
InputRaise ==
    /\ mode = "stream"
    /\ ppc = "next" /\ ~cancelReq
    /\ Budget
    /\ EnterFinally
    /\ taskExc' = TRUE
    /\ anomalies' = anomalies + 1
    /\ UNCHANGED <<cpc, cancelReq, nsent, chunksRecv, pending, thread,
                   delivered, status, synthCalls, svars, tvars, dvars, fvars,
                   mode, clipOf, audio>>

\* await asyncio.sleep(SYNTHESIS_DELAY_S) returns; the synthesis call starts.
DelayDone ==
    /\ ppc = "delay" /\ ~cancelReq
    /\ ppc' = "synth"
    /\ chunksRecv' = 0
    /\ synthCalls' = [synthCalls EXCEPT ![nsent] = @ + 1]
    /\ UNCHANGED <<queue, cpc, cancelReq, nsent, pending, thread, taskExc,
                   delivered, status, anomalies, sentinels, lateFrame, svars,
                   tvars, dvars, fvars, mode, clipOf, audio>>

\* communicate.stream() yields one audio chunk: mp3_sentence_bytes += chunk.
SynthChunk ==
    /\ ppc = "synth" /\ ~cancelReq
    /\ chunksRecv < MaxAudioChunks
    /\ chunksRecv' = chunksRecv + 1
    /\ UNCHANGED <<queue, ppc, cpc, cancelReq, nsent, pending, thread,
                   taskExc, delivered, status, synthCalls, anomalies,
                   sentinels, lateFrame, svars, tvars, dvars, fvars, mode,
                   clipOf, audio>>

\* Mutant of AfterSynth: the trim is started and not awaited.
AfterSynthNoWait ==
    IF chunksRecv = 0
    THEN ppc' = "next" /\ thread' = thread
    ELSE ppc' = "next" /\ thread' = "running"

\* What follows the end of `async for audio_chunk`: `continue` on no bytes,
\* else the offloaded trim (streaming) or decode (single file).
AfterSynth ==
    IF chunksRecv = 0
    THEN ppc' = "next" /\ thread' = thread
    ELSE /\ ppc' = IF mode = "stream" THEN "trim" ELSE "decode"
         /\ thread' = "running"

\* communicate.stream() ends normally.
SynthEnd ==
    /\ ppc = "synth" /\ ~cancelReq
    /\ IF chunksRecv = 0
       THEN /\ Budget
            /\ anomalies' = anomalies + 1
            /\ status' = [status EXCEPT ![nsent] = "empty"]
       ELSE /\ anomalies' = anomalies
            /\ status' = [status EXCEPT ![nsent] = "ok"]
    /\ AfterSynth
    /\ chunksRecv' = 0
    /\ UNCHANGED <<queue, cpc, cancelReq, nsent, pending, taskExc, delivered,
                   synthCalls, sentinels, lateFrame, svars, tvars, dvars,
                   fvars, mode, clipOf, audio>>

\* communicate.stream() raises: _synthesize_and_stream logs the exception and
\* returns, so the caller sees the end of the iteration with the bytes so far.
SynthRaise ==
    /\ ppc = "synth" /\ ~cancelReq
    /\ Budget
    /\ anomalies' = anomalies + 1
    /\ status' = [status EXCEPT ![nsent] =
                     IF chunksRecv = 0 THEN "raised_empty" ELSE "raised_partial"]
    /\ AfterSynth
    /\ chunksRecv' = 0
    /\ UNCHANGED <<queue, cpc, cancelReq, nsent, pending, taskExc, delivered,
                   synthCalls, sentinels, lateFrame, svars, tvars, dvars,
                   fvars, mode, clipOf, audio>>

\* Mutant of OfferFrame: a frame that finds the queue full is dropped.
OfferFrameDropWhenFull(a) ==
    IF QueueFull
    THEN /\ ppc' = "next"
         /\ pending' = NoAudio
         /\ UNCHANGED <<queue, sentinels, lateFrame>>
    ELSE /\ ppc' = "next"
         /\ pending' = NoAudio
         /\ QueuePut(Frame(nsent, a))

\* `if trimmed_mp3: await output_queue.put(trimmed_mp3)`: with room in the
\* queue the frame is enqueued at once, else the producer waits in put.
OfferFrame(a) ==
    IF QueueFull
    THEN /\ ppc' = "put"
         /\ pending' = a
         /\ UNCHANGED <<queue, sentinels, lateFrame>>
    ELSE /\ ppc' = "next"
         /\ pending' = NoAudio
         /\ QueuePut(Frame(nsent, a))

\* _trim_end_of_audio returns in the worker and the producer resumes with
\* the re-encoded clip, or with the original bytes (a decode error).
TrimDone ==
    /\ ppc = "trim" /\ ~cancelReq
    /\ thread = "running"
    /\ \E c \in StreamClips :
          /\ c # NominalClip => Budget
          /\ anomalies' = IF c # NominalClip THEN anomalies + 1 ELSE anomalies
          /\ clipOf' = [clipOf EXCEPT ![nsent] = c]
          /\ OfferFrame(TrimEndOfAudio(c))
    /\ thread' = "idle"
    /\ UNCHANGED <<cpc, cancelReq, nsent, chunksRecv, taskExc, delivered,
                   status, synthCalls, svars, tvars, dvars, fvars, mode,
                   audio>>

\* The producer waiting in output_queue.put(trimmed_mp3) is woken by a get.
PutFrame ==
    /\ ppc = "put" /\ ~cancelReq
    /\ ~QueueFull
    /\ QueuePut(Frame(nsent, pending))
    /\ ppc' = "next"
    /\ pending' = NoAudio
    /\ UNCHANGED <<cpc, cancelReq, nsent, chunksRecv, thread, taskExc,
                   delivered, status, synthCalls, anomalies, svars, tvars,
                   dvars, fvars, mode, clipOf, audio>>

\* The producer waiting in the finally clause's put(None) is woken by a get.
PutSentinel ==
    /\ ppc = "finally" /\ ~cancelReq
    /\ ~QueueFull
    /\ QueuePut(NoneItem)
    /\ ppc' = "finished"
    /\ UNCHANGED <<cpc, cancelReq, nsent, chunksRecv, pending, thread,
                   taskExc, delivered, status, synthCalls, anomalies, svars,
                   tvars, dvars, fvars, mode, clipOf, audio>>

\* Mutant of ProducerCancelled: the cancelled task ends without the sentinel.
ProducerCancelledSilently ==
    /\ cancelReq
    /\ ppc \notin {"finished", "cancelled"}
    /\ cancelReq' = FALSE
    /\ pending' = NoAudio
    /\ IF ppc = "finally"
       THEN ppc' = "cancelled" /\ UNCHANGED <<queue, sentinels, lateFrame>>
       ELSE IF QueueFull
            THEN ppc' = "finally" /\ UNCHANGED <<queue, sentinels, lateFrame>>
            ELSE /\ ppc' = "cancelled"
                 /\ UNCHANGED <<queue, sentinels, lateFrame>>
    /\ UNCHANGED <<cpc, nsent, chunksRecv, thread, taskExc, delivered,
                   status, synthCalls, anomalies, svars, tvars, dvars, fvars,
                   mode, clipOf, audio>>

\* CancelledError is thrown into the task at the await it is suspended on.
\* It is not an Exception, so `except Exception` lets it pass and the
\* finally clause runs; thrown into the finally clause's own put, it ends
\* the task.
ProducerCancelled ==
    /\ cancelReq
    /\ ppc \notin {"finished", "cancelled"}
    /\ cancelReq' = FALSE
    /\ pending' = NoAudio
    /\ IF ppc = "finally"
       THEN ppc' = "cancelled" /\ UNCHANGED <<queue, sentinels, lateFrame>>
       ELSE IF QueueFull
            THEN ppc' = "finally" /\ UNCHANGED <<queue, sentinels, lateFrame>>
            ELSE ppc' = "cancelled" /\ QueuePut(NoneItem)
    /\ UNCHANGED <<cpc, nsent, chunksRecv, thread, taskExc, delivered,
                   status, synthCalls, anomalies, svars, tvars, dvars, fvars,
                   mode, clipOf, audio>>

\* A worker whose awaiting task was cancelled runs to its end; the result
\* is dropped.
OrphanTrimDone ==
    /\ thread = "running"
    /\ ppc \notin {"trim", "decode", "join"}
    /\ thread' = "idle"
    /\ UNCHANGED <<queue, ppc, cpc, cancelReq, nsent, chunksRecv, pending,
                   taskExc, delivered, status, synthCalls, anomalies,
                   sentinels, lateFrame, svars, tvars, dvars, fvars, mode,
                   clipOf, audio>>

\* ------------------------------------------------------------------------
\* async_process_to_single_file (it shares the sentence loop's delay and
\* synthesis steps above)
\* ------------------------------------------------------------------------
\* AudioSegment.from_file returns in the worker: the clip is appended,
\* trimmed when longer than TRIM_MS_FROM_END and as it is otherwise; a
\* decode error is logged and the loop continues with the next sentence.
FileDecodeDone ==
    /\ ppc = "decode"
    /\ thread = "running"
    /\ \E c \in FileClips :
          /\ c # NominalClip => Budget
          /\ anomalies' = IF c # NominalClip THEN anomalies + 1 ELSE anomalies
          /\ clipOf' = [clipOf EXCEPT ![nsent] = c]
          /\ all_segments' =
                IF c.decodable
                THEN Append(all_segments, Frame(nsent, TrimmedSegment(c)))
                ELSE all_segments
    /\ thread' = "idle"
    /\ ppc' = "next"
    /\ UNCHANGED <<queue, cpc, cancelReq, nsent, chunksRecv, pending,
                   taskExc, result, delivered, status, synthCalls, sentinels,
                   lateFrame, svars, tvars, dvars, mode, audio>>

\* The sentences are exhausted: None without segments, else the join is
\* handed to a worker.
FileEnd ==
    /\ mode = "file"
    /\ ppc = "next"
    /\ IF all_segments = <<>>
       THEN ppc' = "returned" /\ result' = ResultNone /\ thread' = thread
       ELSE ppc' = "join" /\ result' = result /\ thread' = "running"
    /\ UNCHANGED <<queue, cpc, cancelReq, nsent, chunksRecv, pending,
                   taskExc, all_segments, delivered, status, synthCalls,
                   anomalies, sentinels, lateFrame, svars, tvars, dvars,
                   mode, clipOf, audio>>

\* Mutant of FileJoinDone: the exception of the join leaves the call.
FileJoinDoneRaises ==
    /\ ppc = "join"
    /\ thread = "running"
    /\ \E ok \in BOOLEAN :
          /\ ~ok => Budget
          /\ anomalies' = IF ok THEN anomalies ELSE anomalies + 1
          /\ result' = IF ok THEN ResultFile(TotalDur(all_segments))
                        ELSE [kind |-> "raised", dur |-> 0]
    /\ thread' = "idle"
    /\ ppc' = "returned"
    /\ UNCHANGED <<queue, cpc, cancelReq, nsent, chunksRecv, pending,
                   taskExc, all_segments, delivered, status, synthCalls,
                   sentinels, lateFrame, svars, tvars, dvars, mode, clipOf,
                   audio>>

\* join_and_export_segments returns the file, or raises and None is returned.
FileJoinDone ==
    /\ ppc = "join"
    /\ thread = "running"
    /\ \E ok \in BOOLEAN :
          /\ ~ok => Budget
          /\ anomalies' = IF ok THEN anomalies ELSE anomalies + 1
          /\ result' = IF ok THEN ResultFile(TotalDur(all_segments))
                        ELSE ResultNone
    /\ thread' = "idle"
    /\ ppc' = "returned"
    /\ UNCHANGED <<queue, cpc, cancelReq, nsent, chunksRecv, pending,
                   taskExc, all_segments, delivered, status, synthCalls,
                   sentinels, lateFrame, svars, tvars, dvars, mode, clipOf,
                   audio>>

FileNext ==
    \/ FileDecodeDone
    \/ FileEnd
    \/ FileJoinDone

\* processing_task.done()
TaskDone == ppc \in {"finished", "cancelled"}

\* ------------------------------------------------------------------------
\* Consumer: the async generator async_process_stream
\* ------------------------------------------------------------------------
\* chunk = await output_queue.get(); if chunk is None: break; yield chunk
ConsumerGet ==
    /\ cpc = "get"
    /\ queue # <<>>
    /\ queue' = Tail(queue)
    /\ IF Head(queue) = NoneItem
       THEN /\ delivered' = delivered
            /\ IF TaskDone
               THEN cpc' = "done" /\ cancelReq' = cancelReq
               ELSE cpc' = "unwind_end" /\ cancelReq' = TRUE
       ELSE /\ delivered' = Append(delivered, Head(queue))
            /\ cpc' = "yield"
            /\ cancelReq' = cancelReq
    /\ UNCHANGED <<ppc, nsent, chunksRecv, pending, thread, taskExc, status,
                   synthCalls, anomalies, sentinels, lateFrame, svars, tvars,
                   dvars, fvars, mode, clipOf, audio>>

\* The consumer asks for the next frame: output_queue.task_done(), loop.
ConsumerResume ==
    /\ cpc = "yield"
    /\ cpc' = "get"
    /\ UNCHANGED <<queue, ppc, cancelReq, nsent, chunksRecv, pending, thread,
                   taskExc, delivered, status, synthCalls, anomalies,
                   sentinels, lateFrame, svars, tvars, dvars, fvars, mode,
                   clipOf, audio>>

\* The iterating task is cancelled while the generator waits in
\* output_queue.get(), which suspends only on an empty queue:
\* except CancelledError: break, then processing_task.cancel() and
\* asyncio.sleep(0). A producer that an earlier get woke from its put was
\* scheduled before this cancellation and has run by now.
ConsumerCancel ==
    /\ cpc = "get"
    /\ queue = <<>>
    /\ ppc \notin {"put", "finally"}
    /\ IF TaskDone
       THEN cpc' = "aborted" /\ cancelReq' = cancelReq
       ELSE cpc' = "unwind" /\ cancelReq' = TRUE
    /\ UNCHANGED <<queue, ppc, nsent, chunksRecv, pending, thread, taskExc,
                   delivered, status, synthCalls, anomalies, sentinels,
                   lateFrame, svars, tvars, dvars, fvars, mode, clipOf,
                   audio>>

\* asyncio.sleep(0) returns after the producer had its step; the generator ends.
ConsumerUnwind ==
    /\ cpc \in {"unwind", "unwind_end"}
    /\ ~cancelReq
    /\ cpc' = IF cpc = "unwind" THEN "aborted" ELSE "done"
    /\ UNCHANGED <<queue, ppc, cancelReq, nsent, chunksRecv, pending, thread,
                   taskExc, delivered, status, synthCalls, anomalies,
                   sentinels, lateFrame, svars, tvars, dvars, fvars, mode,
                   clipOf, audio>>

\* The consumer stops iterating while the generator is suspended at
\* `yield chunk`: the generator is closed (GeneratorExit at the yield, which
\* `except asyncio.CancelledError` does not catch), the code after the loop
\* does not run.
ConsumerClose ==
    /\ cpc = "yield"
    /\ cpc' = "closed"
    /\ UNCHANGED <<queue, ppc, cancelReq, nsent, chunksRecv, pending, thread,
                   taskExc, delivered, status, synthCalls, anomalies,
                   sentinels, lateFrame, svars, tvars, dvars, fvars, mode,
                   clipOf, audio>>

\* async_get_tts_audio: `[chunk async for chunk in audio_generator]` has
\* read the stream to its end (the sentinel, or a cancellation the generator
\* took in output_queue.get() and turned into the end of the iteration);
\* the chunks are joined and returned.
GetTtsAudioReturn ==
    /\ mode = "stream"
    /\ cpc \in {"done", "aborted"}
    /\ audio = TtsPending
    /\ audio' = TtsAudio(delivered)
    /\ UNCHANGED <<queue, ppc, cpc, cancelReq, nsent, chunksRecv, pending,
                   thread, taskExc, delivered, status, synthCalls, anomalies,
                   sentinels, lateFrame, svars, tvars, dvars, fvars, mode,
                   clipOf>>

ProducerNext ==
    \/ InputSentence
    \/ InputEnd
    \/ InputRaise
    \/ DelayDone
    \/ SynthChunk
    \/ SynthEnd
    \/ SynthRaise
    \/ TrimDone
    \/ PutFrame
    \/ PutSentinel
    \/ ProducerCancelled
    \/ OrphanTrimDone

ConsumerNext ==
    \/ ConsumerGet
    \/ ConsumerResume
    \/ ConsumerCancel
    \/ ConsumerUnwind
    \/ ConsumerClose
    \/ GetTtsAudioReturn


\* ------------------------------------------------------------------------
\* Specifications
\* ------------------------------------------------------------------------
\* The segmenter at rest, while the pipeline runs on numbered sentences.
SegOff ==
    /\ text = <<>>
    /\ chunks = <<>>
    /\ nchunks = 0
    /\ buffer = <<>>
    /\ emitted = <<>>
    /\ decimalCut = FALSE
    /\ forced = <<>>
    /\ spc = "off"

\* The pipeline at rest, while the segmenter runs on a text.
PipeOff ==
    /\ mode = "off"
    /\ all_segments = <<>>
    /\ result = ResultPending
    /\ queue = <<>>
    /\ ppc = "off"
    /\ cpc = "off"
    /\ cancelReq = FALSE
    /\ nsent = 0
    /\ chunksRecv = 0
    /\ pending = NoAudio
    /\ thread = "idle"
    /\ taskExc = FALSE
    /\ delivered = <<>>
    /\ status = [i \in 1..MaxSentences |-> "none"]
    /\ synthCalls = [i \in 1..MaxSentences |-> 0]
    /\ anomalies = 0
    /\ sentinels = 0
    /\ lateFrame = FALSE
    /\ clipOf = [i \in 1..MaxSentences |-> NoClip]
    /\ audio = TtsPending

\* The trimmer at rest.
TrimOff ==
    /\ clip = NoClip
    /\ trimOut = NoAudio
    /\ tpc = "off"

\* No pair of concurrent invocations.
DuoOff ==
    /\ inputs = <<>>
    /\ invoc = <<>>
    /\ buffers = <<>>
    /\ queues = <<>>

\* One invocation of async_process_stream or async_process_to_single_file.
Init == PipeInit /\ SegOff /\ TrimOff /\ DuoOff

Next == ProducerNext \/ ConsumerNext \/ FileNext

Spec == Init /\ [][Next]_vars

\* One run of _sentence_generator over a text cut into chunks.
SegSpecInit == SegInit /\ PipeOff /\ TrimOff /\ DuoOff

SegSpec == SegSpecInit /\ [][SegNext]_vars


\* The trimmer alone, on one clip: _trim_end_of_audio as the streaming
\* pipeline calls it, and the decode-and-trim of the single-file pipeline.
ClipDurations ==
    (TRIM_MS_FROM_END - MaxClipSpread)..(TRIM_MS_FROM_END + MaxClipSpread)

TrimInit ==
    /\ clip \in {Clip(d, ok) : d \in ClipDurations, ok \in BOOLEAN}
    /\ trimOut = NoAudio
    /\ tpc = "ready"

\* trimmed_mp3 = _trim_end_of_audio(mp3_sentence_bytes)
TrimStream ==
    /\ tpc = "ready"
    /\ trimOut' = TrimEndOfAudio(clip)
    /\ tpc' = "trimmed"
    /\ UNCHANGED <<clip, mode, pvars, svars, dvars>>

\* AudioSegment.from_file and the trim of async_process_to_single_file: a
\* clip that cannot be decoded raises and nothing is kept of it.
TrimFile ==
    /\ tpc = "ready"
    /\ trimOut' = IF clip.decodable THEN TrimmedSegment(clip)
                  ELSE Audio("dropped", 0)
    /\ tpc' = "kept"
    /\ UNCHANGED <<clip, mode, pvars, svars, dvars>>

TrimNext == TrimStream \/ TrimFile

TrimSpecInit == TrimInit /\ PipeOff /\ SegOff /\ DuoOff

TrimSpec == TrimSpecInit /\ [][TrimNext]_vars

\* ---------------------------------------------------------------------
\* Two invocations of async_process_stream on the one EdgeStreamProcessor
\* that async_setup_entry creates: the warm-up request and a real request.
\* ---------------------------------------------------------------------

Invocations == {1, 2}

\* The text stream of the warm-up request.
WarmUpStream == <<<<"i", "n", "i", "t">>>>

\* The texts of the real request.
DuoTexts == {TextEllipsis}

\* The object that holds the buffer of invocation i: the generator object
\* of that invocation, where the buffer is a local variable.  This one
\* keeps it on the processor instead.
BufferOfShared(i) == 1

BufferOf(i) == i

\* The queue invocation i writes to and reads from: a local of that
\* invocation.
QueueOf(i) == i

DuoNone == [kind |-> "None", text |-> <<>>]

DuoFrame(s) == [kind |-> "audio", text |-> s]

\* The sentences one invocation yields when it runs alone on the chunks cs,
\* starting with the buffer buf.
RECURSIVE AloneFrom(_, _)
AloneFrom(cs, buf) ==
    IF cs = <<>> THEN FlushOf(buf)
    ELSE LET d == Drain(buf \o Preprocess(Head(cs)), <<>>, FALSE, <<>>)
         IN  d.out \o AloneFrom(Tail(cs), d.buffer)

Alone(cs) == AloneFrom(cs, <<>>)

\* The turns of the while loop on the buffer b that find a sentence, in
\* order: what _find_sentence returns in each, <<sentence, rest>>. Nothing
\* but this loop changes the buffer until the next chunk is taken.
RECURSIVE Turns(_)
Turns(b) ==
    LET r == FindSentence(b)
    IN  IF r[1] = <<>> THEN <<>> ELSE <<r>> \o Turns(r[2])

DuoInit ==
    /\ inputs \in {[i \in Invocations |-> IF i = 1 THEN WarmUpStream ELSE cs] :
                     cs \in UNION {Chunkings(t, MaxChunks) : t \in DuoTexts}}
    /\ invoc = [i \in Invocations |->
                  [chunks |-> inputs[i], turns |-> <<>>, sentence |-> <<>>,
                   ppc |-> "read", cpc |-> "get", dropped |-> 0,
                   received |-> <<>>]]
    /\ buffers = [i \in Invocations |-> <<>>]
    /\ queues = [i \in Invocations |-> <<>>]

\* The generator of invocation i takes the next chunk of its stream, or at
\* the end of the stream yields what is left in its buffer.
DuoRead(i) ==
    /\ invoc[i].ppc = "read"
    /\ IF invoc[i].chunks # <<>>
       THEN LET b == buffers[BufferOf(i)] \o
                        Preprocess(Head(invoc[i].chunks))
            IN  /\ buffers' = [buffers EXCEPT ![BufferOf(i)] = b]
                /\ invoc' = [invoc EXCEPT ![i].chunks = Tail(@),
                                          ![i].turns = Turns(b),
                                          ![i].ppc = "scan"]
       ELSE LET last == FlushOf(buffers[BufferOf(i)])
            IN  /\ invoc' = IF last # <<>>
                            THEN [invoc EXCEPT ![i].sentence = last[1],
                                               ![i].ppc = "speak_last"]
                            ELSE [invoc EXCEPT ![i].ppc = "finally"]
                /\ UNCHANGED buffers
    /\ UNCHANGED <<inputs, queues, mode, pvars, svars, tvars>>

\* Mutant of DuoScan: a sentence found is left in the buffer until the
\* stream has ended.
DuoScanDeferred(i) ==
    /\ invoc[i].ppc = "scan"
    /\ IF invoc[i].turns # <<>> /\ invoc[i].chunks = <<>>
       THEN /\ buffers' = [buffers EXCEPT ![BufferOf(i)] =
                             Head(invoc[i].turns)[2]]
            /\ invoc' = IF HasWord(Head(invoc[i].turns)[1])
                        THEN [invoc EXCEPT
                                ![i].turns = Tail(@),
                                ![i].sentence = Head(invoc[i].turns)[1],
                                ![i].ppc = "speak"]
                        ELSE [invoc EXCEPT ![i].turns = Tail(@)]
       ELSE /\ invoc' = [invoc EXCEPT ![i].ppc = "read"]
            /\ UNCHANGED buffers
    /\ UNCHANGED <<inputs, queues, mode, pvars, svars, tvars>>

\* One turn of the while loop of the generator of invocation i: a
\* sentence found is yielded if it holds a word character and the buffer
\* becomes the rest; without one the generator waits for the next chunk.
DuoScan(i) ==
    /\ invoc[i].ppc = "scan"
    /\ IF invoc[i].turns # <<>>
       THEN /\ buffers' = [buffers EXCEPT ![BufferOf(i)] =
                             Head(invoc[i].turns)[2]]
            /\ invoc' = IF HasWord(Head(invoc[i].turns)[1])
                        THEN [invoc EXCEPT
                                ![i].turns = Tail(@),
                                ![i].sentence = Head(invoc[i].turns)[1],
                                ![i].ppc = "speak"]
                        ELSE [invoc EXCEPT ![i].turns = Tail(@)]
       ELSE /\ invoc' = [invoc EXCEPT ![i].ppc = "read"]
            /\ UNCHANGED buffers
    /\ UNCHANGED <<inputs, queues, mode, pvars, svars, tvars>>

\* The sentence of invocation i is synthesized and trimmed, and its frame is
\* put on the queue of that invocation; a synthesis that fails or gives no
\* audio puts nothing.
DuoSpeak(i) ==
    /\ invoc[i].ppc \in {"speak", "speak_last"}
    /\ \E ok \in BOOLEAN :
         IF ok
         THEN /\ Len(queues[QueueOf(i)]) < QueueMaxSize
              /\ queues' = [queues EXCEPT ![QueueOf(i)] =
                              Append(@, DuoFrame(invoc[i].sentence))]
              /\ invoc' = [invoc EXCEPT
                             ![i].ppc = IF @ = "speak" THEN "scan"
                                        ELSE "finally"]
         ELSE /\ invoc[i].dropped < MaxAnomalies
              /\ invoc' = [invoc EXCEPT
                             ![i].ppc = IF @ = "speak" THEN "scan"
                                        ELSE "finally",
                             ![i].dropped = @ + 1]
              /\ UNCHANGED queues
    /\ UNCHANGED <<inputs, buffers, mode, pvars, svars, tvars>>

\* The finally clause of _process_all_text of invocation i.
DuoFinally(i) ==
    /\ invoc[i].ppc = "finally"
    /\ Len(queues[QueueOf(i)]) < QueueMaxSize
    /\ queues' = [queues EXCEPT ![QueueOf(i)] = Append(@, DuoNone)]
    /\ invoc' = [invoc EXCEPT ![i].ppc = "finished"]
    /\ UNCHANGED <<inputs, buffers, mode, pvars, svars, tvars>>

\* The consumer of invocation i takes the head of its queue.
DuoGet(i) ==
    /\ invoc[i].cpc = "get"
    /\ queues[QueueOf(i)] # <<>>
    /\ LET chunk == Head(queues[QueueOf(i)])
       IN  invoc' = IF chunk = DuoNone
                    THEN [invoc EXCEPT ![i].cpc = "done"]
                    ELSE [invoc EXCEPT ![i].received = Append(@, chunk.text)]
    /\ queues' = [queues EXCEPT ![QueueOf(i)] = Tail(@)]
    /\ UNCHANGED <<inputs, buffers, mode, pvars, svars, tvars>>

DuoNext ==
    \E i \in Invocations :
        \/ DuoRead(i)
        \/ DuoScan(i)
        \/ DuoSpeak(i)
        \/ DuoFinally(i)
        \/ DuoGet(i)

DuoSpecInit == DuoInit /\ PipeOff /\ SegOff /\ TrimOff

DuoSpec == DuoSpecInit /\ [][DuoNext]_vars

\* What invocation i does without new input: the turns of the sentence
\* loop, the synthesis, the puts and the consumer's gets.
DuoWork(i) ==
    \/ DuoScan(i)
    \/ DuoSpeak(i)
    \/ DuoFinally(i)
    \/ DuoGet(i)

\* The same invocations with tasks that run whenever they can and
\* consumers that keep reading, fed by input streams that may pause for
\* ever before any chunk and before their end.
StallSpec ==
    /\ DuoSpecInit
    /\ [][DuoNext]_vars
    /\ \A i \in Invocations : WF_vars(DuoWork(i))

\* A finite input stream read to its end by a consumer that keeps reading:
\* no cancellation, no close; every task that can run eventually runs.
ReadingProducer ==
    \/ InputSentence
    \/ InputEnd
    \/ InputRaise
    \/ DelayDone
    \/ SynthChunk
    \/ SynthEnd
    \/ SynthRaise
    \/ TrimDone
    \/ PutFrame
    \/ PutSentinel

ReadingConsumer ==
    \/ ConsumerGet
    \/ ConsumerResume

ReadingInit == PipeInit /\ mode = "stream" /\ SegOff /\ TrimOff /\ DuoOff

ReadingNext == ReadingProducer \/ ReadingConsumer

ReadingSpec ==
    /\ ReadingInit
    /\ [][ReadingNext]_vars
    /\ WF_vars(ReadingProducer)
    /\ WF_vars(ReadingConsumer)

\* ------------------------------------------------------------------------
\* Properties
\* ------------------------------------------------------------------------
\* The sentence numbers of a sequence of frames are strictly increasing.
Increasing(s) ==
    \A i, j \in 1..Len(s) : i < j => s[i].seq < s[j].seq

\* The frames of sentence i in a sequence of frames.
FramesOf(s, i) == {k \in 1..Len(s) : s[k].seq = i}

\* The synthesis of sentence i failed: the service raised or returned no audio.
Failed(i) == status[i] \in {"empty", "raised_empty", "raised_partial"}

\* The synthesis of sentence i left bytes in mp3_sentence_bytes.
HasBytes(i) == status[i] \in {"ok", "raised_partial"}

\* Synthesis calls and offloaded operations started and not yet completed.
Outstanding ==
    (IF ppc = "synth" THEN 1 ELSE 0) + (IF thread = "running" THEN 1 ELSE 0)

\* The producer waits in output_queue.put on a full queue.
BlockedOnPut == ppc \in {"put", "finally"} /\ QueueFull

\* C1: the frames delivered by async_process_stream, and the segments
\* collected by async_process_to_single_file, are in the order of their
\* sentences: no frame of sentence i comes after a frame of a sentence j > i.
C1_OrderPreserved ==
    /\ Increasing(delivered)
    /\ Increasing(all_segments)

\* Three frames were delivered around a sentence that failed.
C1_Witness ==
    /\ Len(delivered) >= 3
    /\ \E i \in 1..MaxSentences :
          /\ Failed(i)
          /\ delivered[1].seq < i
          /\ i < delivered[Len(delivered)].seq

\* C2: at most one synthesis or offloaded operation is outstanding at any
\* time (the code has no window: 1 is at most W for every W >= 1), and
\* while one is outstanding no further sentence is taken for dispatch.
C2_WindowBound ==
    /\ Outstanding <= 1
    /\ ppc \in {"next", "delay"} => Outstanding = 0

\* A trim runs in the worker while earlier frames wait in the queue.
C2_Witness ==
    /\ mode = "stream"
    /\ ppc = "trim" /\ thread = "running"
    /\ nsent >= 3
    /\ Len(queue) >= 2

\* C3, as claimed: a sentence whose synthesis failed (the service raised,
\* or returned no audio) has no frame in the output, and when the stream
\* has ended every sentence synthesized without failure has its frame.
C3_FailedSentenceHasNoFrame ==
    /\ \A i \in 1..MaxSentences :
          Failed(i) =>
             /\ FramesOf(delivered, i) = {}
             /\ FramesOf(queue, i) = {}
    /\ cpc = "done" =>
          \A i \in 1..MaxSentences :
             status[i] = "ok" => FramesOf(delivered, i) # {}

\* C4: once the consumer has read the stream to its end, every sentence
\* whose synthesis succeeded has exactly one frame among those delivered;
\* and no sentence ever has two.
C4_NoLossNoDuplicate ==
    /\ \A i \in 1..MaxSentences : Cardinality(FramesOf(delivered, i)) <= 1
    /\ cpc = "done" =>
          \A i \in 1..MaxSentences :
             status[i] = "ok" => Cardinality(FramesOf(delivered, i)) = 1

\* The stream was read to its end, with successes after a failure.
C4_Witness ==
    /\ cpc = "done"
    /\ Len(delivered) >= 3
    /\ \E i \in 1..MaxSentences :
          Failed(i) /\ i < delivered[Len(delivered)].seq

C6_CancelEndsProducer ==
    cpc \in {"aborted", "closed"} => ~BlockedOnPut

\* C7: the queue never holds more than QueueMaxSize items, and while the
\* producer waits in put on the full queue no sentence is taken and no
\* synthesis is started.
C7_QueueBounded ==
    /\ [](Len(queue) <= QueueMaxSize)
    /\ [][(BlockedOnPut /\ ~cancelReq /\ Len(queue') >= Len(queue)) =>
             (nsent' = nsent /\ synthCalls' = synthCalls /\ ppc' = ppc)]_vars

\* The queue is full and the producer waits to put the next frame.
C7_Witness ==
    /\ Len(queue) = QueueMaxSize
    /\ ppc = "put"
    /\ cpc \in {"get", "yield"}

\* C8: with a finite input and a consumer that keeps reading, the stream
\* ends: the producer has finished, the sentinel was enqueued once and after
\* every frame, and the consumer has taken it.
C8_Terminates ==
    <>[](/\ cpc = "done"
         /\ ppc = "finished"
         /\ queue = <<>>
         /\ sentinels = 1
         /\ ~lateFrame)

\* The stream ended after successes and failures.
C8_Witness ==
    /\ cpc = "done"
    /\ Len(delivered) >= 2
    /\ \E i \in 1..MaxSentences : Failed(i)

\* C9, as claimed: in a text that arrives as one chunk no sentence is cut
\* at a period that stands between two digits, and the text
\* "The value is 3.14 and 2.71, done." comes out as one sentence.
C9_NoCutBetweenDigits ==
    nchunks = 1 =>
       /\ ~decimalCut
       /\ (spc = "done" /\ text = TextDecimals) => emitted = <<TextDecimals>>

\* C10, as claimed: however the text is cut into chunks, the sentences
\* yielded are those of the text arriving as one chunk.
C10_ChunkingInvariant ==
    spc = "done" => emitted = Unsplit(text)

\* The word-forming characters of s, in order.
WordsOf(s) == SelectSeq(s, LAMBDA c : c \in WordChars)

\* s without its whitespace.
Unspaced(s) == SelectSeq(s, LAMBDA c : c \notin Whitespace)

\* The concatenation of a sequence of sentences.
RECURSIVE Joined(_)
Joined(ss) == IF ss = <<>> THEN <<>> ELSE Head(ss) \o Joined(Tail(ss))

\* C11, as claimed: when the stream has ended, the sentences yielded,
\* concatenated in order, hold exactly the word-forming characters of the
\* text, in their order, however the text was cut into chunks.
C11_WordContentPreserved ==
    spc = "done" => WordsOf(Joined(emitted)) = WordsOf(text)

\* C12: every sentence yielded holds a word-forming character, on the
\* terminator path, on the split for length and on the final flush.
C12_SentencesHaveWords ==
    \A k \in 1..Len(emitted) :
       \E i \in 1..Len(emitted[k]) : emitted[k][i] \in WordChars

\* "Hi... ok?! --" was read to its end: "Hi." and "ok?" were yielded, the
\* candidates ".", ".", "!" and the rest "--" were not.
C12_Witness ==
    /\ spc = "done"
    /\ text = TextEllipsis
    /\ Len(emitted) = 2
    /\ buffer # <<>>

\* C13, as claimed: after a chunk has been processed the buffer kept is at
\* most max_chars long and _find_sentence finds no sentence in it.
C13_BufferBounded ==
    spc = "recv" =>
       /\ Len(buffer) <= max_chars
       /\ FindSentence(buffer)[1] = <<>>

\* C14, as claimed: a buffer longer than max_chars without a sentence
\* terminator is cut at the last space within its first max_chars +
\* search_slack characters, or at max_chars when there is none, and the
\* sentence is at most max_chars + search_slack long.
C14_ForcedSplitPosition ==
    \A k \in 1..Len(forced) :
       LET b == forced[k].buffer
           sp == LastSpace(Take(b, max_chars + search_slack)) - 1
           at == IF sp > 0 THEN sp ELSE max_chars
       IN  Len(b) > max_chars =>
              /\ forced[k].sentence = Strip(Take(b, at))
              /\ forced[k].rest = Strip(Drop(b, at + 1))
              /\ Len(forced[k].sentence) <= max_chars + search_slack

\* C15, as claimed: on a split made for length alone the sentence followed
\* by the rest is the buffer before the split, up to the whitespace that
\* strip() removes at the cut.
C15_ForcedSplitLossless ==
    \A k \in 1..Len(forced) :
       Unspaced(forced[k].sentence \o forced[k].rest)
          = Unspaced(forced[k].buffer)

\* C16: a clip pydub decodes that lasts at most TRIM_MS_FROM_END comes back
\* as the original bytes (the segment as it is, in the single-file
\* pipeline); a longer one comes back trimmed, TRIM_MS_FROM_END shorter.
C16_TrimByThreshold ==
    (tpc \in {"trimmed", "kept"} /\ clip.decodable) =>
       /\ clip.dur <= TRIM_MS_FROM_END => trimOut = Audio("original", clip.dur)
       /\ clip.dur > TRIM_MS_FROM_END =>
             trimOut = Audio("trimmed", clip.dur - TRIM_MS_FROM_END)

\* A clip one millisecond over the threshold was trimmed to one millisecond
\* by _trim_end_of_audio.
C16_Witness ==
    /\ tpc = "trimmed"
    /\ clip = Clip(TRIM_MS_FROM_END + 1, TRUE)
    /\ trimOut = Audio("trimmed", 1)

\* The sentence i was synthesized into a clip that could not be decoded.
Undecodable(i) == clipOf[i] # NoClip /\ ~clipOf[i].decodable

\* C17, as claimed: a sentence whose clip cannot be decoded is not dropped.
\* When the stream has been read to its end its original audio is among
\* the frames delivered, and when async_process_to_single_file has returned
\* it is among the segments joined.
C17_UndecodableClipKept ==
    \A i \in 1..MaxSentences :
       Undecodable(i) =>
          /\ cpc = "done" =>
                \E k \in FramesOf(delivered, i) : delivered[k].kind = "original"
          /\ result # ResultPending => FramesOf(all_segments, i) # {}

\* The length the clip of sentence i has once trimmed.
TrimmedDur(i) ==
    IF clipOf[i].dur > TRIM_MS_FROM_END
    THEN clipOf[i].dur - TRIM_MS_FROM_END
    ELSE clipOf[i].dur

\* The sum of the trimmed lengths of the clips of a sequence of segments.
RECURSIVE SumTrimmed(_)
SumTrimmed(segs) ==
    IF segs = <<>> THEN 0
    ELSE TrimmedDur(Head(segs).seq) + SumTrimmed(Tail(segs))

\* C18, as claimed: async_process_to_single_file returns None when no
\* sentence was synthesized successfully, and a file it returns is made of
\* k >= 1 segments and lasts the sum of their trimmed lengths. (A join that
\* raises returns None whatever k is.)
C18_SingleFileResult ==
    result # ResultPending =>
       /\ (\A i \in 1..MaxSentences : status[i] # "ok") => result = ResultNone
       /\ result.kind = "file" =>
             /\ all_segments # <<>>
             /\ result.dur = SumTrimmed(all_segments)

\* C19, as claimed: no sentence is dispatched to the synthesis twice, and a
\* sentence whose synthesis failed has no audio in the output, streamed or
\* joined.
C19_NoRetryNoOutput ==
    \A i \in 1..MaxSentences :
       /\ synthCalls[i] <= 1
       /\ Failed(i) =>
             /\ FramesOf(delivered, i) = {}
             /\ FramesOf(all_segments, i) = {}

\* s is t with some elements left out.
RECURSIVE IsSubsequence(_, _)
IsSubsequence(s, t) ==
    IF s = <<>> THEN TRUE
    ELSE IF t = <<>> THEN FALSE
    ELSE IF Head(s) = Head(t) THEN IsSubsequence(Tail(s), Tail(t))
    ELSE IsSubsequence(s, Tail(t))

\* C20: of two invocations running at once on the one processor, each
\* consumer receives frames of the sentences of its own stream only, in the
\* order the invocation yields them when it runs alone; when no synthesis
\* of the invocation failed it has received, at its end, exactly those.
C20_InvocationsIsolated ==
    \A i \in DOMAIN invoc :
        /\ IsSubsequence(invoc[i].received, Alone(inputs[i]))
        /\ invoc[i].cpc = "done" =>
             Len(invoc[i].received) + invoc[i].dropped = Len(Alone(inputs[i]))

\* The real request has delivered a frame and holds text in its buffer
\* while the warm-up request holds its text in its own buffer.
C20_Witness ==
    /\ invoc # <<>>
    /\ buffers[BufferOf(1)] # <<>>
    /\ buffers[BufferOf(2)] # <<>>
    /\ invoc[2].received # <<>>
    /\ invoc[1].ppc = "read"
    /\ invoc[2].ppc = "read"

\* The consumer no longer reads: it was cancelled in output_queue.get(), or
\* while it held a frame (the generator was closed at the yield).
ConsumptionStopped == cpc \in {"unwind", "aborted", "closed"}

\* The audio frames of a queue, in order.
AudioFrames(q) == SelectSeq(q, LAMBDA f : f # NoneItem)

\* C21, as claimed: once the consumer side has been cancelled no sentence
\* is dispatched to the synthesis and no audio frame is enqueued any more,
\* whatever synthesis or trim was outstanding; and the producer has ended
\* when the cancelled generator ends, without waiting for that operation.
C21_CancelAbandonsWork ==
    /\ [][ConsumptionStopped =>
             /\ synthCalls' = synthCalls
             /\ AudioFrames(queue') = AudioFrames(queue)]_vars
    /\ [](cpc = "aborted" => TaskDone)

\* The step in which join_and_export_segments raises.
JoinFails == ppc = "join" /\ ppc' = "returned" /\ anomalies' > anomalies

\* No audio frame is added to the queue in this step.
NoFrameEnqueued == Len(AudioFrames(queue')) <= Len(AudioFrames(queue))

\* C22: a join that fails makes async_process_to_single_file return None,
\* and the call never ends otherwise than with None or a file; in streaming
\* mode, once the producer has failed on its input no audio frame is
\* enqueued, the task ends through the finally clause and the stream is
\* closed by the sentinel, enqueued once.
C22_AssemblyFailureReported ==
    /\ [][JoinFails => result' = ResultNone]_vars
    /\ [](result \in {ResultPending, ResultNone} \/ result.kind = "file")
    /\ [][taskExc => NoFrameEnqueued]_vars
    /\ [](taskExc => /\ ppc \in {"finally", "finished"}
                     /\ ~lateFrame
                     /\ ppc = "finished" => sentinels = 1)

\* The join of two segments failed and None was returned.
C22_Witness ==
    /\ mode = "file"
    /\ ppc = "returned"
    /\ Len(all_segments) >= 2
    /\ result = ResultNone

\* The step that follows the end of the input stream.
StreamEnds == spc = "recv" /\ spc' = "done"

\* C23: when the input stream ends the buffer, trimmed of its surrounding
\* whitespace, is yielded as one last sentence, after all the sentences
\* yielded before, if it holds a word-forming character; else nothing is
\* yielded.
C23_RemainderFlushed ==
    [][StreamEnds =>
          emitted' = IF HasWord(buffer) THEN Append(emitted, Strip(buffer))
                     ELSE emitted]_vars

\* A remainder without terminator, kept with its leading blank, was yielded
\* trimmed after an earlier sentence.
C23_Witness ==
    /\ spc = "done"
    /\ Len(emitted) >= 2
    /\ buffer # Strip(buffer)
    /\ \A i \in 1..Len(buffer) : buffer[i] \notin Terminators
    /\ emitted[Len(emitted)] = Strip(buffer)

\* The chunks of invocation i that have arrived.
Arrived(i) == SubSeq(inputs[i], 1, Len(inputs[i]) - Len(invoc[i].chunks))

\* The sentences the chunks cs complete, the buffer being buf before them:
\* those cut at a terminator, the rest being left for later.
RECURSIVE CompletedBy(_, _)
CompletedBy(cs, buf) ==
    IF cs = <<>> THEN <<>>
    ELSE LET d == Drain(buf \o Preprocess(Head(cs)), <<>>, FALSE, <<>>)
         IN  d.out \o CompletedBy(Tail(cs), d.buffer)

\* Every sentence completed by the chunks arrived so far was synthesized
\* and, unless its synthesis failed, its frame was received by the consumer.
CaughtUp(i) ==
    Len(invoc[i].received) + invoc[i].dropped >=
        Len(CompletedBy(Arrived(i), <<>>))

\* C24: in streaming mode the frames of the sentences complete so far are
\* delivered to a consumer that keeps reading, again and again and whether
\* or not the input stream ever gives another chunk or ends.
C24_DeliveryNeedsNoFurtherInput ==
    \A i \in Invocations : []<>CaughtUp(i)

\* The consumer holds the frame of a first sentence while the generator
\* waits for the next chunk of a stream that has not ended.
C24_Witness ==
    /\ invoc # <<>>
    /\ invoc[2].chunks # <<>>
    /\ invoc[2].ppc = "read"
    /\ invoc[2].dropped = 0
    /\ Len(invoc[2].received) >= 1
    /\ buffers[BufferOf(2)] # <<>>

\* C25: async_get_tts_audio returns "mp3" with None when the stream
\* delivered no frame, and else "mp3" with the frames delivered joined in
\* the order of their delivery; the bytes it returns are never empty.
C25_OneShotAudio ==
    audio # TtsPending =>
       /\ audio.ext = "mp3"
       /\ IF delivered = <<>> THEN audio = TtsNone
          ELSE audio.kind = "bytes" /\ audio.chunks = delivered
       /\ audio.kind = "bytes" =>
             /\ audio.chunks # <<>>
             /\ \A k \in 1..Len(audio.chunks) : audio.chunks[k].dur > 0

\* The only sentence of the message failed and None was returned.
C25_Witness ==
    /\ cpc = "done"
    /\ nsent = 1
    /\ Failed(1)
    /\ audio = TtsNone

\* C26: the producer enqueues the sentinel at most once, as the last thing
\* it does and behind every frame; a producer task that has ended, by the
\* end of its input, by an exception of the input or by its cancellation,
\* has enqueued it once.
C26_SentinelOnceAndLast ==
    /\ sentinels <= 1
    /\ ~lateFrame
    /\ \A k \in 1..Len(queue) : queue[k] = NoneItem => k = Len(queue)
    /\ sentinels = 1 => TaskDone
    /\ TaskDone => sentinels = 1

\* The input stream raised after two sentences: their frames wait in the
\* queue before the sentinel.
C26_Witness ==
    /\ taskExc
    /\ ppc = "finished"
    /\ Len(queue) = 3
    /\ queue[3] = NoneItem
    /\ sentinels = 1

\* C27: when the input stream has raised, a consumer that keeps reading
\* comes to the end of its iteration, and it has then received the frame
\* of every sentence that gave audio before the failure; no frame and no
\* sentinel is left in the queue.
C27_InputFailureEndsStream ==
    /\ taskExc ~> (cpc = "done" /\ queue = <<>>)
    /\ [](taskExc /\ cpc = "done" =>
             /\ sentinels = 1
             /\ \A i \in 1..nsent :
                   HasBytes(i) => Cardinality(FramesOf(delivered, i)) = 1)

\* The input stream raised after two sentences and the consumer has read
\* their frames and the sentinel.
C27_Witness ==
    /\ taskExc
    /\ cpc = "done"
    /\ nsent = 2
    /\ Len(delivered) = 2

\* C28, as claimed: once the generator has been closed at a yielded frame
\* the producer task is cancelled: the cancellation has been requested, or
\* the task has ended; and it is not blocked in a put on the full queue.
C28_CloseCancelsProducer ==
    cpc = "closed" => /\ cancelReq \/ TaskDone
                      /\ ~BlockedOnPut

====
